---- MODULE Spec2Model ----
(***************************************************************************)
(* Model of watermark_api.py: the colour parser hex_to_rgba, the size      *)
(* clamp resize_image, the compositor add_watermark and the two request    *)
(* handlers watermark_image (POST /watermark) and watermark_batch_images   *)
(* (POST /watermark/batch).                                                *)
(*                                                                         *)
(* Strings that the code inspects character by character (the colour) are  *)
(* sequences of one-character strings.  Pixel data is abstract: a decoded  *)
(* image is its size plus a tag naming its pixels.                         *)
(***************************************************************************)
EXTENDS Integers, Sequences, FiniteSets, TLC

\* Bounds of the model.
MaxLen == 7        \* longest colour string after the leading '#' run
MaxHashes == 2     \* longest run of leading '#'
MaxDim == 12       \* largest image width / height / max_resolution
MaxFiles == 3      \* most files in one batch request
MaxConcFiles == 2  \* most files in a batch when two requests interleave

\* Program constant: the inset of the watermark from the image edge.
MARGIN == 10

VARIABLES
    fn,                  \* harness: which pure function is being called
    arg,                 \* harness: its arguments
    ret,                 \* harness: <<>> before the call, <<value>> after
    req,                 \* request id -> the request's files and parameters
    pc,                  \* request id -> "start" | "read" | "done"
    idx,                 \* request id -> number of files whose read() was awaited
    image_bytes,         \* request id -> <<bytes of the last completed read>>
    watermarked_images,  \* request id -> list of add_watermark results
    calls,               \* request id -> arguments of every add_watermark call
    response             \* request id -> <<>> or <<the response>>

vars == <<fn, arg, ret, req, pc, idx, image_bytes, watermarked_images, calls, response>>

harnessVars == <<fn, arg, ret>>
requestVars == <<req, pc, idx, image_bytes, watermarked_images, calls, response>>

-----------------------------------------------------------------------------
(* hex_to_rgba                                                             *)

HexDigits == <<"0","1","2","3","4","5","6","7","8","9",
               "a","b","c","d","e","f","A","B","C","D","E","F">>

\* int(c, 16) for one character c of [0-9A-Fa-f].
HexVal(c) ==
    LET i == CHOOSE k \in 1..Len(HexDigits) : HexDigits[k] = c
    IN  IF i <= 16 THEN i - 1 ELSE i - 7

IsHexDigit(c) == \E k \in 1..Len(HexDigits) : HexDigits[k] = c

\* str.lstrip("#"): drops every leading '#', however many there are.
RECURSIVE lstrip(_)
lstrip(s) == IF s # <<>> /\ Head(s) = "#" THEN lstrip(Tail(s)) ELSE s

\* re.fullmatch(r"[0-9A-Fa-f]{6}", s)
fullmatch_hex6(s) == Len(s) = 6 /\ \A k \in 1..6 : IsHexDigit(s[k])

\* int(s[i:i+2], 16) with i zero-based.
HexByte(s, i) == 16 * HexVal(s[i + 1]) + HexVal(s[i + 2])

hex_to_rgba(hex_color, opacity) ==
    LET stripped == lstrip(hex_color)
    IN  IF fullmatch_hex6(stripped)
        THEN <<HexByte(stripped, 0), HexByte(stripped, 2), HexByte(stripped, 4), opacity>>
        ELSE <<255, 255, 255, opacity>>

-----------------------------------------------------------------------------
(* Inputs of the colour harness.                                           *)

ColorAlphabet == {"#", "1", "F", "g"}

RECURSIVE SeqsUpTo(_, _)
SeqsUpTo(S, n) ==
    IF n = 0 THEN {<<>>}
    ELSE LET shorter == SeqsUpTo(S, n - 1)
         IN  shorter \cup {Append(s, c) : s \in {t \in shorter : Len(t) = n - 1}, c \in S}

Hashes(k) == [i \in 1..k |-> "#"]

ColorStrings ==
    {Hashes(k) \o body : k \in 0..MaxHashes, body \in SeqsUpTo(ColorAlphabet, MaxLen)}

HarnessOpacities == {0, 255}

NoRequests == <<>>

InitColor ==
    /\ fn = "hex_to_rgba"
    /\ arg \in {<<c, o>> : c \in ColorStrings, o \in HarnessOpacities}
    /\ ret = <<>>
    /\ req = NoRequests /\ pc = NoRequests /\ idx = NoRequests
    /\ image_bytes = NoRequests /\ watermarked_images = NoRequests
    /\ calls = NoRequests /\ response = NoRequests

CallHexToRgba ==
    /\ fn = "hex_to_rgba"
    /\ ret = <<>>
    /\ ret' = <<hex_to_rgba(arg[1], arg[2])>>
    /\ UNCHANGED <<fn, arg>>
    /\ UNCHANGED requestVars

NextColor == CallHexToRgba

SpecColor == InitColor /\ [][NextColor]_vars

-----------------------------------------------------------------------------
(* Images.  Uploaded bytes either decode to an image or do not.  An image   *)
(* is its size, its mode and a tag standing for its pixel content.         *)

Garbage == [decodable |-> FALSE, pixels |-> "garbage", width |-> 0, height |-> 0]

ImageBytes(pixels, width, height) ==
    [decodable |-> TRUE, pixels |-> pixels, width |-> width, height |-> height]

\* Image.open(io.BytesIO(image_data)).convert("RGBA"): <<>> when it raises.
open_convert_rgba(image_data) ==
    IF image_data.decodable
    THEN <<[mode |-> "RGBA", pixels |-> image_data.pixels,
            width |-> image_data.width, height |-> image_data.height]>>
    ELSE <<>>

Abs(n) == IF n < 0 THEN -n ELSE n
Max2(a, b) == IF a >= b THEN a ELSE b
CeilDiv(a, b) == (a + b - 1) \div b

(***************************************************************************)
(* Image.thumbnail((R, R)) of the imaging library picks between            *)
(* floor and ceil of the scaled side by comparing two double-precision     *)
(* keys.  When the two keys are equal as real numbers the rounding of the  *)
(* doubles decides; these are the (width, height, R) with sides up to 16   *)
(* where the doubles make ceil win.  Everywhere else in that range the     *)
(* exact comparison below agrees with the doubles.                         *)
(***************************************************************************)
FloatTieTakesCeil ==
    { <<2,4,3>>, <<2,8,6>>, <<2,16,12>>, <<3,6,3>>, <<3,12,6>>, <<4,8,3>>,
      <<4,8,7>>, <<4,16,6>>, <<4,16,14>>, <<5,6,3>>, <<5,10,3>>, <<5,10,7>>,
      <<5,12,6>>, <<5,14,7>>, <<6,12,3>>, <<6,12,7>>, <<6,12,11>>, <<7,12,6>>,
      <<7,14,3>>, <<7,14,7>>, <<7,14,11>>, <<8,16,3>>, <<8,16,7>>,
      <<8,16,11>>, <<9,14,7>>, <<10,12,3>>, <<10,12,9>>, <<11,6,10>>,
      <<13,12,7>>, <<13,14,7>> }

\* max(min(floor, ceil, key=key), 1) given the two keys scaled to integers:
\* min() keeps the first argument, floor, unless ceil's key is smaller.
round_aspect(lo, hi, keyLo, keyHi, tieCeil) ==
    Max2(IF keyHi < keyLo \/ (keyHi = keyLo /\ lo # hi /\ tieCeil) THEN hi ELSE lo, 1)

\* The size Image.thumbnail((R, R)) gives an image of width x height, R > 0.
thumbnail_size(width, height, R) ==
    IF R >= width /\ R >= height
    THEN <<width, height>>
    ELSE LET tieCeil == <<width, height, R>> \in FloatTieTakesCeil
         IN  IF height >= width
             THEN \* x / y >= aspect: the width is fitted to the height R
                  LET lo == (R * width) \div height
                      hi == CeilDiv(R * width, height)
                  IN  <<round_aspect(lo, hi, Abs(width * R - lo * height),
                                     Abs(width * R - hi * height), tieCeil), R>>
             ELSE \* the height is fitted to the width R; key(0) = 0
                  LET lo == (R * height) \div width
                      hi == CeilDiv(R * height, width)
                  IN  <<R, round_aspect(lo, hi,
                                        IF lo = 0 THEN 0 ELSE Abs(width * lo - R * height) * hi,
                                        IF lo = 0 THEN 1 ELSE Abs(width * hi - R * height) * lo,
                                        tieCeil)>>

\* Variant: shrinks only when both sides exceed the bound.
resize_image_both(image, max_resolution) ==
    IF image.width > max_resolution /\ image.height > max_resolution
    THEN LET size == thumbnail_size(image.width, image.height, max_resolution)
         IN  [image EXCEPT !.width = size[1], !.height = size[2]]
    ELSE image

\* Variant: always scales to the bound, Image.resize in place of thumbnail.
resize_image_stretch(image, max_resolution) ==
    [image EXCEPT !.width = max_resolution, !.height = max_resolution]

resize_image(image, max_resolution) ==
    IF image.width > max_resolution \/ image.height > max_resolution
    THEN LET size == thumbnail_size(image.width, image.height, max_resolution)
         IN  [image EXCEPT !.width = size[1], !.height = size[2]]
    ELSE image

-----------------------------------------------------------------------------
(* add_watermark                                                           *)

\* Optional int: <<>> is None, <<n>> is n.  Python truth of the value.
None == <<>>
Some(n) == <<n>>
Truthy(opt) == opt # None /\ opt[1] # 0

(***************************************************************************)
(* The text is modelled as its characters together with the box the font   *)
(* reports for it at the requested size: draw.textbbox((0, 0), text, font) *)
(***************************************************************************)
textbbox(text, font_size) == text.bbox

\* Variant: the origin is clamped into the image.
draw_origin2_clamped(position, width, height, text_width, text_height) ==
    CASE position = "top_left"     -> <<2 * MARGIN, 2 * MARGIN>>
      [] position = "top_right"    -> <<Max2(0, 2 * (width - text_width - MARGIN)), 2 * MARGIN>>
      [] position = "bottom_left"  -> <<2 * MARGIN, Max2(0, 2 * (height - text_height - MARGIN))>>
      [] position = "bottom_right" -> <<Max2(0, 2 * (width - text_width - MARGIN)),
                                        Max2(0, 2 * (height - text_height - MARGIN))>>
      [] position = "center"       -> <<Max2(0, width - text_width),
                                        Max2(0, height - text_height)>>

\* Draw origin in half pixels, <<2x, 2y>>: the centre uses true division.
draw_origin2(position, width, height, text_width, text_height) ==
    CASE position = "top_left"     -> <<2 * MARGIN, 2 * MARGIN>>
      [] position = "top_right"    -> <<2 * (width - text_width - MARGIN), 2 * MARGIN>>
      [] position = "bottom_left"  -> <<2 * MARGIN, 2 * (height - text_height - MARGIN)>>
      [] position = "bottom_right" -> <<2 * (width - text_width - MARGIN),
                                        2 * (height - text_height - MARGIN)>>
      [] position = "center"       -> <<width - text_width, height - text_height>>

HTTPException(status_code, detail) ==
    [status_code |-> status_code, detail |-> detail, media_type |-> "", body |-> <<>>]

\* What a call returns: the value it returns or the exception it raises.
Raised(exc) == [raised |-> TRUE, exc |-> <<exc>>, value |-> <<>>]
Returned(v) == [raised |-> FALSE, exc |-> <<>>, value |-> <<v>>]

\* Variant: the decode is not guarded, the failure surfaces as a server fault.
add_watermark_unguarded(image_data, text, color, font_size, opacity, position, max_resolution) ==
    LET opened == open_convert_rgba(image_data)
    IN  IF opened = <<>>
        THEN Raised(HTTPException(500, "Internal Server Error"))
        ELSE LET image == IF Truthy(max_resolution)
                          THEN resize_image(opened[1], max_resolution[1])
                          ELSE opened[1]
                 bbox == textbbox(text, font_size)
             IN  Returned([format |-> "JPEG", mode |-> "RGB",
                           width |-> image.width, height |-> image.height,
                           pixels |-> image.pixels,
                           text |-> text.chars, fill |-> hex_to_rgba(color, opacity),
                           xy2 |-> draw_origin2(position, image.width, image.height,
                                                bbox[3] - bbox[1], bbox[4] - bbox[2])])

add_watermark(image_data, text, color, font_size, opacity, position, max_resolution) ==
    LET opened == open_convert_rgba(image_data)
    IN  IF opened = <<>>
        THEN Raised(HTTPException(400, "Invalid image file."))
        ELSE LET image == IF Truthy(max_resolution)
                          THEN resize_image(opened[1], max_resolution[1])
                          ELSE opened[1]
                 width == image.width
                 height == image.height
                 rgba_color == hex_to_rgba(color, opacity)
                 bbox == textbbox(text, font_size)
                 text_width == bbox[3] - bbox[1]
                 text_height == bbox[4] - bbox[2]
                 xy2 == draw_origin2(position, width, height, text_width, text_height)
             IN  Returned([format |-> "JPEG", mode |-> "RGB",
                           width |-> width, height |-> height,
                           pixels |-> image.pixels,
                           text |-> text.chars, fill |-> rgba_color, xy2 |-> xy2])

-----------------------------------------------------------------------------
(* Inputs of the image harness.                                            *)

Positions == {"top_left", "top_right", "bottom_left", "bottom_right", "center"}

Texts ==
    { [chars |-> "", bbox |-> <<0, 0, 0, 0>>],
      [chars |-> "W", bbox |-> <<0, 1, 1, 2>>],
      [chars |-> "WM", bbox |-> <<1, 2, 4, 7>>],
      [chars |-> "WATERMARK", bbox |-> <<0, 3, 30, 14>>] }

HarnessImages ==
    {Garbage} \cup {ImageBytes("A", w, h) : w \in 1..MaxDim, h \in 1..MaxDim}

Red == <<"#", "F", "F", "1", "1", "1", "1">>

InitImage ==
    /\ fn \in {"resize_image", "add_watermark"}
    /\ IF fn = "resize_image"
       THEN arg \in {<<open_convert_rgba(i)[1], r>> :
                       i \in HarnessImages \ {Garbage}, r \in 1..MaxDim}
       ELSE arg \in {<<i, t, Red, 50, 128, p, r>> :
                       i \in HarnessImages, t \in Texts, p \in Positions,
                       r \in {None} \cup {Some(n) : n \in 0..MaxDim}}
    /\ ret = <<>>
    /\ req = NoRequests /\ pc = NoRequests /\ idx = NoRequests
    /\ image_bytes = NoRequests /\ watermarked_images = NoRequests
    /\ calls = NoRequests /\ response = NoRequests

CallResizeImage ==
    /\ fn = "resize_image"
    /\ ret = <<>>
    /\ ret' = <<resize_image(arg[1], arg[2])>>
    /\ UNCHANGED <<fn, arg>>
    /\ UNCHANGED requestVars

CallAddWatermark ==
    /\ fn = "add_watermark"
    /\ ret = <<>>
    /\ ret' = <<add_watermark(arg[1], arg[2], arg[3], arg[4], arg[5], arg[6], arg[7])>>
    /\ UNCHANGED <<fn, arg>>
    /\ UNCHANGED requestVars

NextImage == CallResizeImage \/ CallAddWatermark

SpecImage == InitImage /\ [][NextImage]_vars

-----------------------------------------------------------------------------
(* The request handlers.  A handler runs without interruption from one     *)
(* `await file.read()` to the next; other requests run while it is         *)
(* suspended there.                                                        *)

StreamingResponse(content, media_type) ==
    [status_code |-> 200, detail |-> "", media_type |-> media_type, body |-> content]

\* Variant: the upper opacity check is off by one.
validate_off_by_one(opacity, resolution) ==
    IF opacity < 0 \/ opacity > 256
    THEN <<HTTPException(400, "Opacity must be between 0 and 255.")>>
    ELSE IF resolution <= 0
         THEN <<HTTPException(400, "Resolution must be greater than 0.")>>
         ELSE <<>>

\* The two parameter checks at the head of both handlers: <<>> or <<exception>>.
validate(opacity, resolution) ==
    IF opacity < 0 \/ opacity > 255
    THEN <<HTTPException(400, "Opacity must be between 0 and 255.")>>
    ELSE IF resolution <= 0
         THEN <<HTTPException(400, "Resolution must be greater than 0.")>>
         ELSE <<>>

\* The handler's call of add_watermark with the request's parameters.
watermark_call(q, bytes) ==
    <<bytes, q.text, q.color, q.font_size, q.opacity, q.position, Some(q.resolution)>>

Apply(a) == add_watermark(a[1], a[2], a[3], a[4], a[5], a[6], a[7])

\* Variant: one module-level list shared by every request.
append_result_global(lists, r, image) == [q \in DOMAIN lists |-> Append(lists[q], image)]

\* watermarked_images.append(...) on the list local to request r.
append_result(lists, r, image) == [lists EXCEPT ![r] = Append(@, image)]

\* Variant: members numbered from one.
zip_members_from_one(images) ==
    [i \in 1..Len(images) |->
        [name |-> "watermarked_" \o ToString(i) \o ".jpg", data |-> images[i]]]

\* The archive: member i of enumerate(watermarked_images), zero-based.
zip_members(images) ==
    [i \in 1..Len(images) |->
        [name |-> "watermarked_" \o ToString(i - 1) \o ".jpg", data |-> images[i]]]

\* POST /watermark up to its await of file.read().
watermark_image_start(r) ==
    /\ pc[r] = "start"
    /\ req[r].kind = "single"
    /\ LET invalid == validate(req[r].opacity, req[r].resolution)
       IN  IF invalid # <<>>
           THEN /\ response' = [response EXCEPT ![r] = invalid]
                /\ pc' = [pc EXCEPT ![r] = "done"]
                /\ UNCHANGED idx
           ELSE /\ idx' = [idx EXCEPT ![r] = 1]
                /\ pc' = [pc EXCEPT ![r] = "read"]
                /\ UNCHANGED response
    /\ UNCHANGED <<req, image_bytes, watermarked_images, calls>>
    /\ UNCHANGED harnessVars

\* POST /watermark from the completion of file.read() to its response.
watermark_image_resume(r) ==
    /\ pc[r] = "read"
    /\ req[r].kind = "single"
    /\ LET bytes == req[r].files[1]
           call == watermark_call(req[r], bytes)
           watermarked_image == Apply(call)
       IN  /\ image_bytes' = [image_bytes EXCEPT ![r] = <<bytes>>]
           /\ calls' = [calls EXCEPT ![r] = Append(@, call)]
           /\ response' = [response EXCEPT ![r] =
                  IF watermarked_image.raised
                  THEN watermarked_image.exc
                  ELSE <<StreamingResponse(watermarked_image.value, "image/jpeg")>>]
    /\ pc' = [pc EXCEPT ![r] = "done"]
    /\ UNCHANGED <<req, idx, watermarked_images>>
    /\ UNCHANGED harnessVars

\* POST /watermark/batch up to its first await of file.read().
watermark_batch_images_start(r) ==
    /\ pc[r] = "start"
    /\ req[r].kind = "batch"
    /\ LET invalid == validate(req[r].opacity, req[r].resolution)
       IN  IF invalid # <<>>
           THEN /\ response' = [response EXCEPT ![r] = invalid]
                /\ pc' = [pc EXCEPT ![r] = "done"]
                /\ UNCHANGED <<idx, watermarked_images>>
           ELSE /\ watermarked_images' = [watermarked_images EXCEPT ![r] = <<>>]
                /\ IF req[r].files = <<>>
                   THEN /\ response' = [response EXCEPT ![r] =
                              <<StreamingResponse(zip_members(<<>>), "application/zip")>>]
                        /\ pc' = [pc EXCEPT ![r] = "done"]
                        /\ UNCHANGED idx
                   ELSE /\ idx' = [idx EXCEPT ![r] = 1]
                        /\ pc' = [pc EXCEPT ![r] = "read"]
                        /\ UNCHANGED response
    /\ UNCHANGED <<req, image_bytes, calls>>
    /\ UNCHANGED harnessVars

\* Variant: a file that does not decode is skipped and the loop goes on.
watermark_batch_images_resume_tolerant(r) ==
    /\ pc[r] = "read"
    /\ req[r].kind = "batch"
    /\ LET i == idx[r]
           bytes == req[r].files[i]
           call == watermark_call(req[r], bytes)
           watermarked_image == Apply(call)
       IN  /\ image_bytes' = [image_bytes EXCEPT ![r] = <<bytes>>]
           /\ calls' = [calls EXCEPT ![r] = Append(@, call)]
           /\ watermarked_images' =
                  IF watermarked_image.raised
                  THEN watermarked_images
                  ELSE append_result(watermarked_images, r, watermarked_image.value[1])
           /\ IF i < Len(req[r].files)
              THEN /\ idx' = [idx EXCEPT ![r] = i + 1]
                   /\ UNCHANGED <<pc, response>>
              ELSE /\ response' = [response EXCEPT ![r] =
                         <<StreamingResponse(zip_members(watermarked_images'[r]),
                                             "application/zip")>>]
                   /\ pc' = [pc EXCEPT ![r] = "done"]
                   /\ UNCHANGED idx
    /\ UNCHANGED req
    /\ UNCHANGED harnessVars

\* POST /watermark/batch from the completion of one file.read() to the next
\* await, or to its response.
watermark_batch_images_resume(r) ==
    /\ pc[r] = "read"
    /\ req[r].kind = "batch"
    /\ LET i == idx[r]
           bytes == req[r].files[i]
           call == watermark_call(req[r], bytes)
           watermarked_image == Apply(call)
       IN  /\ image_bytes' = [image_bytes EXCEPT ![r] = <<bytes>>]
           /\ calls' = [calls EXCEPT ![r] = Append(@, call)]
           /\ IF watermarked_image.raised
              THEN /\ response' = [response EXCEPT ![r] = watermarked_image.exc]
                   /\ pc' = [pc EXCEPT ![r] = "done"]
                   /\ UNCHANGED <<idx, watermarked_images>>
              ELSE /\ watermarked_images' =
                          append_result(watermarked_images, r, watermarked_image.value[1])
                   /\ IF i < Len(req[r].files)
                      THEN /\ idx' = [idx EXCEPT ![r] = i + 1]
                           /\ UNCHANGED <<pc, response>>
                      ELSE /\ response' = [response EXCEPT ![r] =
                                 <<StreamingResponse(zip_members(watermarked_images'[r]),
                                                     "application/zip")>>]
                           /\ pc' = [pc EXCEPT ![r] = "done"]
                           /\ UNCHANGED idx
    /\ UNCHANGED req
    /\ UNCHANGED harnessVars

-----------------------------------------------------------------------------
(* Requests.                                                               *)

Blobs == {Garbage, ImageBytes("A", 4, 2), ImageBytes("B", 2, 6)}

NotAColor == <<"n", "o", "t", "a", "c", "o", "l", "o", "r">>

SeqsFromTo(S, lo, hi) == {s \in SeqsUpTo(S, hi) : Len(s) >= lo}

Requests(maxFiles, opacities, resolutions, positions, texts, colors) ==
    [kind : {"single"}, files : SeqsFromTo(Blobs, 1, 1), text : texts, color : colors,
     font_size : {50}, opacity : opacities, position : positions,
     resolution : resolutions]
    \cup
    [kind : {"batch"}, files : SeqsFromTo(Blobs, 1, maxFiles), text : texts,
     color : colors, font_size : {50}, opacity : opacities, position : positions,
     resolution : resolutions]

InitRequests(ids, inputs) ==
    /\ fn = "" /\ arg = <<>> /\ ret = <<>>
    /\ req \in [ids -> inputs]
    /\ pc = [r \in ids |-> "start"]
    /\ idx = [r \in ids |-> 0]
    /\ image_bytes = [r \in ids |-> <<>>]
    /\ watermarked_images = [r \in ids |-> <<>>]
    /\ calls = [r \in ids |-> <<>>]
    /\ response = [r \in ids |-> <<>>]

Init ==
    InitRequests({"r1"},
                 Requests(MaxFiles, {-1, 0, 128, 255, 256}, {-1, 0, 1, 3, 800}, Positions,
                          {t \in Texts : t.chars \in {"WM", "WATERMARK"}}, {Red, NotAColor}))

InitConc ==
    InitRequests({"r1", "r2"},
                 Requests(MaxConcFiles, {128, 300}, {3}, {"center", "bottom_right"},
                          {t \in Texts : t.chars = "WM"}, {Red}))

Next ==
    \/ \E r \in DOMAIN req : watermark_image_start(r)
    \/ \E r \in DOMAIN req : watermark_image_resume(r)
    \/ \E r \in DOMAIN req : watermark_batch_images_start(r)
    \/ \E r \in DOMAIN req : watermark_batch_images_resume(r)

Spec == Init /\ [][Next]_vars

SpecConc == InitConc /\ [][Next]_vars

-----------------------------------------------------------------------------
(* Properties.                                                             *)

RequestIds == DOMAIN req
Done(r) == pc[r] = "done"
ParamsValid(q) == q.opacity >= 0 /\ q.opacity <= 255 /\ q.resolution >= 1
Undecodable(q) == {i \in 1..Len(q.files) : ~q.files[i].decodable}
FirstUndecodable(q) == CHOOSE k \in Undecodable(q) : \A j \in Undecodable(q) : k <= j
ValidationDetails ==
    {"Opacity must be between 0 and 255.", "Resolution must be greater than 0."}
InvalidImage == HTTPException(400, "Invalid image file.")

\* C1 as stated: a finished request of either endpoint carries a 400 exactly
\* when opacity is outside 0..255 or resolution is <= 0, and whenever it
\* carries a 400 no file has been read and add_watermark has not been called.
C1_Rejected400IffParamsInvalid ==
    \A r \in RequestIds :
        Done(r) =>
            /\ (response[r][1].status_code = 400) <=> ~ParamsValid(req[r])
            /\ response[r][1].status_code = 400 =>
                   idx[r] = 0 /\ image_bytes[r] = <<>> /\ calls[r] = <<>>

\* C1 amended: a finished request of either endpoint carries one of the two
\* validation errors (status 400) exactly when opacity is outside 0..255 or
\* resolution is <= 0, and then no read() was issued, no bytes were read and
\* add_watermark was not called; every other 400 is the "Invalid image file."
\* error of a request whose parameters passed validation.
C1_ValidationRejectsBeforeAnyRead ==
    \A r \in RequestIds :
        Done(r) =>
            LET resp == response[r][1]
            IN  /\ (resp.status_code = 400 /\ resp.detail \in ValidationDetails)
                       <=> ~ParamsValid(req[r])
                /\ ~ParamsValid(req[r]) =>
                       idx[r] = 0 /\ image_bytes[r] = <<>> /\ calls[r] = <<>>
                /\ (resp.status_code = 400 /\ resp.detail \notin ValidationDetails) =>
                       resp = InvalidImage /\ ParamsValid(req[r])

C1_Witness ==
    \E r \in RequestIds :
        /\ Done(r) /\ req[r].kind = "batch" /\ req[r].opacity = 256
        /\ req[r].files[1].decodable
        /\ response[r][1].status_code = 400 /\ idx[r] = 0

\* A colour string is well formed when it is six hexadecimal digits with at
\* most one '#' in front.
WellFormedColor(c) ==
    LET body == IF c # <<>> /\ c[1] = "#" THEN Tail(c) ELSE c
    IN  Len(body) = 6 /\ \A k \in 1..6 : IsHexDigit(body[k])

\* C2 as stated: hex_to_rgba returns the three parsed bytes and the opacity
\* for every well-formed colour, and (255, 255, 255, opacity) for every other
\* string.
C2_HexToRgbaParsesOrWhite ==
    (fn = "hex_to_rgba" /\ ret # <<>>) =>
        LET c == arg[1]
            body == IF c # <<>> /\ c[1] = "#" THEN Tail(c) ELSE c
        IN  IF WellFormedColor(c)
            THEN ret[1] = <<HexByte(body, 0), HexByte(body, 2), HexByte(body, 4), arg[2]>>
            ELSE ret[1] = <<255, 255, 255, arg[2]>>

MemberName(i) ==
    CASE i = 0 -> "watermarked_0.jpg"
      [] i = 1 -> "watermarked_1.jpg"
      [] i = 2 -> "watermarked_2.jpg"
      [] i = 3 -> "watermarked_3.jpg"
      [] i = 4 -> "watermarked_4.jpg"

\* C3: a finished batch of n decodable images with valid parameters called
\* add_watermark once per image, in order, with the request's one
\* configuration, and its archive has n members, member i named
\* watermarked_<i>.jpg and holding the watermarked i-th file.
C3_BatchOneMemberPerImageInOrder ==
    \A r \in RequestIds :
        (Done(r) /\ req[r].kind = "batch" /\ ParamsValid(req[r])
                 /\ Undecodable(req[r]) = {}) =>
            LET q == req[r]
                n == Len(q.files)
                resp == response[r][1]
            IN  /\ Len(calls[r]) = n
                /\ \A i \in 1..n :
                       calls[r][i] = <<q.files[i], q.text, q.color, q.font_size,
                                       q.opacity, q.position, <<q.resolution>>>>
                /\ resp.status_code = 200 /\ resp.media_type = "application/zip"
                /\ Len(resp.body) = n
                /\ \A i \in 1..n :
                       /\ resp.body[i].name = MemberName(i - 1)
                       /\ resp.body[i].data.pixels = q.files[i].pixels
                       /\ resp.body[i].data =
                              add_watermark(q.files[i], q.text, q.color, q.font_size,
                                            q.opacity, q.position, <<q.resolution>>).value[1]

C3_Witness ==
    \E r \in RequestIds :
        /\ Done(r) /\ req[r].kind = "batch" /\ Len(req[r].files) = 3
        /\ req[r].files[1] # req[r].files[2]
        /\ response[r][1].status_code = 200 /\ Len(response[r][1].body) = 3

\* C4 as stated: in a finished batch with valid parameters every image is
\* processed, the undecodable ones failing alone.
C4_FailureScopedToOneImage ==
    \A r \in RequestIds :
        (Done(r) /\ req[r].kind = "batch" /\ ParamsValid(req[r])) =>
            Len(calls[r]) = Len(req[r].files)

\* C5: POST /watermark with valid parameters answers undecodable bytes with
\* the 400 "Invalid image file." error and no body; no response exists before
\* the handler has finished, and a body exists only when the file decoded and
\* add_watermark returned its JPEG.
C5_SingleUndecodableIs400NoBody ==
    \A r \in RequestIds :
        req[r].kind = "single" =>
            /\ response[r] # <<>> => Done(r)
            /\ (Done(r) /\ ParamsValid(req[r])) =>
                   IF req[r].files[1].decodable
                   THEN /\ response[r][1].status_code = 200
                        /\ response[r][1].media_type = "image/jpeg"
                        /\ Len(response[r][1].body) = 1
                        /\ response[r][1].body[1].format = "JPEG"
                   ELSE response[r] = <<InvalidImage>> /\ InvalidImage.body = <<>>
            /\ (response[r] # <<>> /\ response[r][1].body # <<>>) =>
                   /\ req[r].files[1].decodable
                   /\ image_bytes[r] = <<req[r].files[1]>>
                   /\ Len(calls[r]) = 1

C5_Witness ==
    \E r \in RequestIds :
        /\ Done(r) /\ req[r].kind = "single" /\ ParamsValid(req[r])
        /\ ~req[r].files[1].decodable
        /\ response[r][1].status_code = 400 /\ Len(calls[r]) = 1

\* The fitted side is within one pixel of the exact scaled value.
AspectWithinRounding(w, h, ow, oh) ==
    IF h >= w THEN Abs(ow * h - oh * w) < h ELSE Abs(oh * w - ow * h) < w

FitsWithin(w, h, ow, oh, bound) ==
    /\ ow >= 1 /\ oh >= 1 /\ ow <= bound /\ oh <= bound
    /\ AspectWithinRounding(w, h, ow, oh)

\* C6: an image with a side above a positive max_resolution leaves
\* resize_image, and add_watermark, with both sides between 1 and
\* max_resolution and its aspect ratio kept up to integer rounding.
C6_ResizeFitsBoundKeepsAspect ==
    /\ (fn = "resize_image" /\ ret # <<>>
            /\ (arg[1].width > arg[2] \/ arg[1].height > arg[2])) =>
           FitsWithin(arg[1].width, arg[1].height, ret[1].width, ret[1].height, arg[2])
    /\ (fn = "add_watermark" /\ ret # <<>> /\ arg[1].decodable
            /\ arg[7] # <<>> /\ arg[7][1] > 0
            /\ (arg[1].width > arg[7][1] \/ arg[1].height > arg[7][1])) =>
           /\ ~ret[1].raised
           /\ FitsWithin(arg[1].width, arg[1].height,
                         ret[1].value[1].width, ret[1].value[1].height, arg[7][1])

C6_Witness ==
    /\ fn = "resize_image" /\ ret # <<>>
    /\ arg[1].width = 12 /\ arg[1].height = 5 /\ arg[2] = 7
    /\ ret[1].width = 7 /\ ret[1].height = 3

\* C7: resize_image returns the image unchanged when both sides are within
\* max_resolution, and add_watermark keeps the input size when both sides are
\* within the bound or when max_resolution is None.
C7_ClampIsNoOpWithinBound ==
    /\ (fn = "resize_image" /\ ret # <<>>
            /\ arg[1].width <= arg[2] /\ arg[1].height <= arg[2]) =>
           ret[1] = arg[1]
    /\ (fn = "add_watermark" /\ ret # <<>> /\ arg[1].decodable
            /\ (arg[7] = <<>>
                \/ (arg[7] # <<>> /\ arg[7][1] > 0
                    /\ arg[1].width <= arg[7][1] /\ arg[1].height <= arg[7][1]))) =>
           /\ ~ret[1].raised
           /\ ret[1].value[1].width = arg[1].width
           /\ ret[1].value[1].height = arg[1].height

C7_Witness ==
    /\ fn = "add_watermark" /\ ret # <<>> /\ arg[7] = <<>>
    /\ arg[1].decodable /\ arg[1].width = 9 /\ arg[1].height = 4
    /\ ret[1].value[1].width = 9 /\ ret[1].value[1].height = 4

\* What a request's own files and parameters determine.
Outcome(q) ==
    IF q.opacity < 0 \/ q.opacity > 255
    THEN HTTPException(400, "Opacity must be between 0 and 255.")
    ELSE IF q.resolution <= 0
    THEN HTTPException(400, "Resolution must be greater than 0.")
    ELSE LET result == [i \in 1..Len(q.files) |->
                           add_watermark(q.files[i], q.text, q.color, q.font_size,
                                         q.opacity, q.position, <<q.resolution>>)]
         IN  IF Undecodable(q) # {}
             THEN InvalidImage
             ELSE IF q.kind = "single"
             THEN StreamingResponse(result[1].value, "image/jpeg")
             ELSE StreamingResponse(
                      [i \in 1..Len(q.files) |->
                          [name |-> MemberName(i - 1), data |-> result[i].value[1]]],
                      "application/zip")

\* C8: with two requests interleaved at their awaited reads, each finished
\* request's response is the one its own files and parameters determine, and
\* the images and calls a request holds come from its own files alone.
C8_OutcomeDependsOnOwnRequestOnly ==
    \A r \in RequestIds :
        /\ Done(r) => response[r] = <<Outcome(req[r])>>
        /\ Len(watermarked_images[r]) <= Len(req[r].files)
        /\ \A i \in 1..Len(watermarked_images[r]) :
               watermarked_images[r][i].pixels = req[r].files[i].pixels
        /\ Len(calls[r]) <= Len(req[r].files)
        /\ \A i \in 1..Len(calls[r]) : calls[r][i][1] = req[r].files[i]

C8_Witness ==
    /\ Done("r1") /\ req["r1"].kind = "batch" /\ Len(req["r1"].files) = 2
    /\ response["r1"][1].status_code = 200
    /\ req["r2"].kind = "batch" /\ req["r2"].files # req["r1"].files
    /\ pc["r2"] = "read" /\ idx["r2"] = 2 /\ Len(watermarked_images["r2"]) = 1

\* C9: add_watermark draws at the origin fixed by the position, the size of
\* the image after resizing, the measured text box and the 10 pixel margin
\* (coordinates are held doubled), never clamps it, and returns for every
\* decodable image however large the text.
C9_OriginPerPositionUnclamped ==
    (fn = "add_watermark" /\ ret # <<>> /\ arg[1].decodable) =>
        /\ ~ret[1].raised
        /\ LET out == ret[1].value[1]
               resized == IF arg[7] # <<>> /\ arg[7][1] # 0
                          THEN thumbnail_size(arg[1].width, arg[1].height, arg[7][1])
                          ELSE <<arg[1].width, arg[1].height>>
               w == out.width
               h == out.height
               tw == arg[2].bbox[3] - arg[2].bbox[1]
               th == arg[2].bbox[4] - arg[2].bbox[2]
               x2 == out.xy2[1]
               y2 == out.xy2[2]
           IN  /\ <<w, h>> = resized
               /\ arg[6] = "top_left" => x2 = 20 /\ y2 = 20
               /\ arg[6] = "top_right" => x2 + 2 * tw + 20 = 2 * w /\ y2 = 20
               /\ arg[6] = "bottom_left" => x2 = 20 /\ y2 + 2 * th + 20 = 2 * h
               /\ arg[6] = "bottom_right" =>
                      x2 + 2 * tw + 20 = 2 * w /\ y2 + 2 * th + 20 = 2 * h
               /\ arg[6] = "center" => x2 + tw = w /\ y2 + th = h

C9_Witness ==
    /\ fn = "add_watermark" /\ ret # <<>> /\ arg[1].decodable
    /\ arg[6] = "bottom_right" /\ arg[1].width = 12 /\ arg[7] = <<6>>
    /\ ~ret[1].raised
    /\ ret[1].value[1].xy2[1] < 0 /\ ret[1].value[1].xy2[2] < 0

\* C10: a batch with valid parameters whose first undecodable file is the
\* k-th never awaits a read past file k, ends with the 400 "Invalid image
\* file." error and no body after exactly k add_watermark calls, and an
\* archive is answered only when every file decoded and was processed.
C10_BatchAbortsAtFirstUndecodable ==
    \A r \in RequestIds :
        (req[r].kind = "batch" /\ ParamsValid(req[r])) =>
            LET q == req[r]
            IN  /\ Undecodable(q) # {} =>
                       /\ idx[r] <= FirstUndecodable(q)
                       /\ Len(calls[r]) <= FirstUndecodable(q)
                       /\ Done(r) =>
                              /\ response[r] = <<InvalidImage>>
                              /\ response[r][1].body = <<>>
                              /\ idx[r] = FirstUndecodable(q)
                              /\ Len(calls[r]) = FirstUndecodable(q)
                              /\ Len(watermarked_images[r]) = FirstUndecodable(q) - 1
                /\ (response[r] # <<>> /\ response[r][1].status_code = 200) =>
                       /\ Undecodable(q) = {}
                       /\ Len(calls[r]) = Len(q.files)
                       /\ Len(watermarked_images[r]) = Len(q.files)

C10_Witness ==
    \E r \in RequestIds :
        /\ Done(r) /\ req[r].kind = "batch" /\ ParamsValid(req[r])
        /\ Len(req[r].files) = 3 /\ Undecodable(req[r]) = {2}
        /\ response[r] = <<InvalidImage>> /\ idx[r] = 2
        /\ Len(watermarked_images[r]) = 1

====
